---- MODULE Spec2Model ----
(***************************************************************************)
(* Delivery cost calculator (delivery_cost_calculator.py) and the          *)
(* dashboard's recalculation (streamlit_app.py).                           *)
(*                                                                         *)
(* Number representation.  Python floats are modelled by exact fixed-point *)
(* integers:                                                               *)
(*   total_distance_km, delivery_duration_hours   hundredths (they are     *)
(*                                   rounded to 2 places at lines 151-152) *)
(*   fuel_price, fuel_consumption, driver_hourly_wage   tenths             *)
(*   toll_rate                                          hundredths         *)
(*   vehicle_depreciation, insurance_daily              thousandths        *)
(*   unrounded amounts of money                         millionths (micro) *)
(*   amounts rounded by round(x, 2)                     hundredths (cents) *)
(* Products and sums are exact at these scales; a float division that is   *)
(* multiplied back (line 187-194) is rounded to the nearest micro, so it   *)
(* is inexact as the float one is.  round(x, 2) rounds half to even.       *)
(***************************************************************************)
EXTENDS Integers, Sequences, FiniteSets, TLC

VARIABLES
    cost_params,          \* self.cost_params of the calculator
    params_given,         \* what the caller passed to __init__ / the loaded file
    rows,                 \* the rows of data_file, in file order
    pc,                   \* position in the running operation
    df,                   \* the filtered frame of process_daily_data
    groups,               \* driver ids df.groupby has still to yield
    driver_results,       \* the list driver_results
    branch_summary,       \* the branch summary frame (a sequence of rows)
    trajectory_analysis,  \* argument of the latest calculate_delivery_cost
    cost_analysis,        \* result of the latest calculate_delivery_cost
    analyzed,             \* number of analyze_driver_trajectory calls made
    param_reads,          \* number of self.cost_params[...] subscripts made
    in_flight,            \* trajectories analyzed and not yet costed
    coords,               \* two points, the arguments of haversine_distance
    distances,            \* the values haversine_distance returned for them
    new_params,           \* the cost_params argument of recalculate_costs
    new_driver_costs,     \* the per-driver frame recalculate_costs returned
    new_branch_summary    \* the branch summary recalculate_costs returned

vars == <<cost_params, params_given, rows, pc, df, groups, driver_results,
          branch_summary, trajectory_analysis, cost_analysis, analyzed,
          param_reads, in_flight, coords, distances, new_params,
          new_driver_costs, new_branch_summary>>

\* what the calculator's methods leave alone outside their own runs
idle == <<in_flight, coords, distances>>

\* what only the dashboard's recalculate_costs writes
dash == <<new_params, new_driver_costs, new_branch_summary>>

(***************************************************************************)
(* Scales                                                                  *)
(***************************************************************************)
MicroPerCent == 100 * 100          \* micro units in 0.01
MicroPerMill == 10 * 100           \* micro units in 0.001

Max(a, b) == IF a >= b THEN a ELSE b
Abs(a) == IF a >= 0 THEN a ELSE 0 - a

\* Python round(): num/den (den > 0) to the nearest integer, half to even.
RoundHalfEven(num, den) ==
    LET q == num \div den
        r == num % den
    IN  IF 2 * r < den THEN q
        ELSE IF 2 * r > den THEN q + 1
        ELSE IF q % 2 = 0 THEN q ELSE q + 1

\* round(x, 2) of an amount x given in micro units: the result in cents.
Round2(micro) == RoundHalfEven(micro, MicroPerCent)

\* A float division whose quotient is used further: nearest micro.
FloatDiv(micro, n) == RoundHalfEven(micro, n)

(***************************************************************************)
(* Cost parameters: a dict from key to value.  A value is [num, val]: num  *)
(* is FALSE for a JSON value that is no number (a string, null).           *)
(***************************************************************************)
ParamKeys == <<"fuel_price", "fuel_consumption", "toll_rate",
               "driver_hourly_wage", "vehicle_depreciation", "insurance_daily">>

Num(v) == [num |-> TRUE, val |-> v]
NonNum == [num |-> FALSE, val |-> 0]

MkParams(fp, fc, tr, w, vd, ins) ==
    [fuel_price |-> fp, fuel_consumption |-> fc, toll_rate |-> tr,
     driver_hourly_wage |-> w, vehicle_depreciation |-> vd,
     insurance_daily |-> ins]

\* the literal of __init__: 7.5, 8.0, 0.45, 25, 150, 50
DefaultParams ==
    MkParams(Num(75), Num(80), Num(45), Num(250), Num(150000), Num(50000))

None == [none |-> TRUE]
EmptyDict == << >>

\* cost_params or {...}: None and the empty dict are falsy
DeliveryCostCalculator(arg) ==
    IF arg = None \/ arg = EmptyDict THEN DefaultParams ELSE arg

HasKey(p, k) == k \in DOMAIN p
Usable(p, k) == HasKey(p, k) /\ p[k].num
V(p, k) == p[k].val

(***************************************************************************)
(* calculate_delivery_cost                                                 *)
(***************************************************************************)
\* Evaluation order of the self.cost_params[...] subscripts: how many are
\* made, and the exception (if any) that ends the call.
Outcome(n, e) == [reads |-> n, error |-> e]

CostParamAccess(p, points_count) ==
    IF ~HasKey(p, "fuel_price") THEN Outcome(1, "KeyError")
    ELSE IF ~HasKey(p, "fuel_consumption") THEN Outcome(2, "KeyError")
    ELSE IF ~p["fuel_price"].num \/ ~p["fuel_consumption"].num
         THEN Outcome(2, "TypeError")
    ELSE IF ~HasKey(p, "toll_rate") THEN Outcome(3, "KeyError")
    ELSE IF ~p["toll_rate"].num THEN Outcome(3, "TypeError")
    ELSE IF ~HasKey(p, "driver_hourly_wage") THEN Outcome(4, "KeyError")
    ELSE IF ~p["driver_hourly_wage"].num THEN Outcome(4, "TypeError")
    ELSE IF points_count <= 0 THEN Outcome(4, "none")
    ELSE IF ~HasKey(p, "vehicle_depreciation") THEN Outcome(5, "KeyError")
    ELSE IF ~HasKey(p, "insurance_daily") THEN Outcome(6, "KeyError")
    ELSE IF ~p["vehicle_depreciation"].num \/ ~p["insurance_daily"].num
         THEN Outcome(6, "TypeError")
    ELSE Outcome(6, "none")

\* 0.1 km, the floor of the cost_efficiency divisor, in hundredths of a km
DistanceFloor == 10

\* the locals of calculate_delivery_cost, unrounded, in micro units
fuel_cost(p, t) ==
    t.total_distance_km * (V(p, "fuel_price") * V(p, "fuel_consumption"))

toll_cost(p, t) == t.total_distance_km * V(p, "toll_rate") * 100

\* mutant: the mileage cost is the sum of the rounded fuel and toll costs
mileage_cost_OfRoundedTerms(p, t) ==
    (Round2(fuel_cost(p, t)) + Round2(toll_cost(p, t))) * MicroPerCent

\* mutant: the toll is subtracted instead of added
mileage_cost_MinusToll(p, t) == fuel_cost(p, t) - toll_cost(p, t)

\* mutant: the toll is left out of the mileage cost
mileage_cost_NoToll(p, t) == fuel_cost(p, t)

mileage_cost(p, t) == fuel_cost(p, t) + toll_cost(p, t)

time_cost(p, t) ==
    t.delivery_duration_hours * V(p, "driver_hourly_wage") * 1000

fixed_cost_per_delivery(p, t) ==
    IF t.delivery_points_count > 0
    THEN FloatDiv((V(p, "vehicle_depreciation") + V(p, "insurance_daily"))
                      * MicroPerMill,
                  Max(t.delivery_points_count, 1))
    ELSE 0

\* mutant: the per-delivery share is not multiplied back
fixed_cost_total_PerDelivery(p, t) == fixed_cost_per_delivery(p, t)

\* mutant: the daily fixed costs are charged whatever the point count
fixed_cost_total_Flat(p, t) ==
    (V(p, "vehicle_depreciation") + V(p, "insurance_daily")) * MicroPerMill

fixed_cost_total(p, t) ==
    fixed_cost_per_delivery(p, t) * t.delivery_points_count

\* mutant: the mileage cost is left out of the total
total_cost_NoMileage(p, t) == time_cost(p, t) + fixed_cost_total(p, t)

\* mutant: the time cost is left out of the total
total_cost_NoTime(p, t) == mileage_cost(p, t) + fixed_cost_total(p, t)

total_cost(p, t) ==
    mileage_cost(p, t) + time_cost(p, t) + fixed_cost_total(p, t)

\* round(total_cost / max(points_count, 1), 2), in cents
avg_cost_per_point(p, t) ==
    RoundHalfEven(total_cost(p, t),
                  Max(t.delivery_points_count, 1) * MicroPerCent)

\* mutant: the divisor is floored at 1 km instead of 0.1 km
cost_efficiency_Floor1km(p, t) ==
    RoundHalfEven(total_cost(p, t), Max(t.total_distance_km, 100) * 100)

\* round(total_cost / max(total_distance, 0.1), 2), in cents
cost_efficiency(p, t) ==
    RoundHalfEven(total_cost(p, t),
                  Max(t.total_distance_km, DistanceFloor) * 100)

Raised(e) == [raised |-> e]
IsRaised(r) == "raised" \in DOMAIN r

\* mutant: the distance field is written from the mileage cost
CostRecord_DistanceIsMileage(p, t) ==
    [driver_id |-> t.driver_id,
     delivery_date |-> t.delivery_date,
     branch_name |-> t.branch_name,
     total_distance_km |-> Round2(mileage_cost(p, t)),
     delivery_duration_hours |-> t.delivery_duration_hours,
     delivery_points_count |-> t.delivery_points_count,
     fuel_cost |-> Round2(fuel_cost(p, t)),
     toll_cost |-> Round2(toll_cost(p, t)),
     mileage_cost |-> Round2(mileage_cost(p, t)),
     time_cost |-> Round2(time_cost(p, t)),
     fixed_cost |-> Round2(fixed_cost_total(p, t)),
     total_cost |-> Round2(total_cost(p, t)),
     avg_cost_per_point |-> avg_cost_per_point(p, t),
     cost_efficiency |-> cost_efficiency(p, t)]

\* the dict returned at lines 202-217
CostRecord(p, t) ==
    [driver_id |-> t.driver_id,
     delivery_date |-> t.delivery_date,
     branch_name |-> t.branch_name,
     total_distance_km |-> t.total_distance_km,
     delivery_duration_hours |-> t.delivery_duration_hours,
     delivery_points_count |-> t.delivery_points_count,
     fuel_cost |-> Round2(fuel_cost(p, t)),
     toll_cost |-> Round2(toll_cost(p, t)),
     mileage_cost |-> Round2(mileage_cost(p, t)),
     time_cost |-> Round2(time_cost(p, t)),
     fixed_cost |-> Round2(fixed_cost_total(p, t)),
     total_cost |-> Round2(total_cost(p, t)),
     avg_cost_per_point |-> avg_cost_per_point(p, t),
     cost_efficiency |-> cost_efficiency(p, t)]

calculate_delivery_cost(p, t) ==
    IF t = EmptyDict THEN EmptyDict
    ELSE LET acc == CostParamAccess(p, t.delivery_points_count)
         IN  IF acc.error # "none" THEN Raised(acc.error)
             ELSE CostRecord(p, t)

\* subscripts of self.cost_params made by one call
CostParamReads(p, t) ==
    IF t = EmptyDict THEN 0
    ELSE CostParamAccess(p, t.delivery_points_count).reads

IsCostRecord(r) == "total_cost" \in DOMAIN r

\* mutant: the per-delivery share is stored back into the parameters
CostParamsAfterCall_Amortized(p, t) ==
    IF t.delivery_points_count > 0 /\ Usable(p, "vehicle_depreciation")
    THEN [p EXCEPT !["vehicle_depreciation"] =
              Num(V(p, "vehicle_depreciation") \div t.delivery_points_count)]
    ELSE p

\* self.cost_params after a call: the body only subscripts it for reading
CostParamsAfterCall(p, t) == p

\* the caller's trajectory_analysis dict after a call: it is only read
TrajectoryAfterCall(p, t) == t

(***************************************************************************)
(* Specification SpecCost: calculate_delivery_cost as a function of a     *)
(* trajectory record and a parameter set drawn from bounded sets.          *)
(***************************************************************************)
MaxDistance == 15      \* total_distance_km of the inputs: 0 .. 0.15 km, ...
MaxDuration == 3       \* delivery_duration_hours: 0 .. 0.03 h, ...
MaxPointCount == 3     \* delivery_points_count: 0 .. 3
MaxCalls == 3          \* calls of calculate_delivery_cost on the same input

\* slider steps of the dashboard never give these; a parameter file can
FractionalParams ==
    MkParams(Num(76), Num(85), Num(45), Num(255), Num(120125), Num(30250))

\* the lower ends of the dashboard's sliders
CheapParams ==
    MkParams(Num(60), Num(60), Num(20), Num(150), Num(100000), Num(30000))

\* the defaults with an hourly wage of 25.3
OddWageParams == [DefaultParams EXCEPT !["driver_hourly_wage"] = Num(253)]

\* non-negative values with zeros: only the toll is charged
TollOnlyParams == MkParams(Num(0), Num(80), Num(45), Num(0), Num(0), Num(0))

CostParamSets == {DefaultParams, FractionalParams, CheapParams, OddWageParams,
                  TollOnlyParams}

CostDistances == (0 .. MaxDistance) \cup {1112, 33360}
CostDurations == (0 .. MaxDuration) \cup {50, 125}

CostTrajectories ==
    { [driver_id |-> "d1", delivery_date |-> "2025-08-20", branch_name |-> "A",
       total_distance_km |-> d, delivery_duration_hours |-> h,
       delivery_points_count |-> n] :
        d \in CostDistances, h \in CostDurations, n \in 0 .. MaxPointCount }

Positive(p) == \A i \in 1 .. Len(ParamKeys) :
                   Usable(p, ParamKeys[i]) /\ V(p, ParamKeys[i]) > 0

InitCost ==
    /\ params_given \in CostParamSets
    /\ cost_params = DeliveryCostCalculator(params_given)
    /\ trajectory_analysis \in CostTrajectories
    /\ cost_analysis = EmptyDict
    /\ pc = "cost_call"
    /\ rows = << >>
    /\ df = << >>
    /\ groups = << >>
    /\ driver_results = << >>
    /\ branch_summary = << >>
    /\ analyzed = 0
    /\ param_reads = 0
    /\ new_params = None
    /\ new_driver_costs = << >>
    /\ new_branch_summary = << >>
    /\ in_flight = {}
    /\ coords = << >>
    /\ distances = << >>

CalculateDeliveryCost ==
    /\ pc = "cost_call"
    /\ cost_analysis' = calculate_delivery_cost(cost_params, trajectory_analysis)
    /\ cost_params' = CostParamsAfterCall(cost_params, trajectory_analysis)
    /\ trajectory_analysis' =
          TrajectoryAfterCall(cost_params, trajectory_analysis)
    /\ param_reads' = param_reads
                        + CostParamReads(cost_params, trajectory_analysis)
    /\ pc' = "cost_returned"
    /\ UNCHANGED idle
    /\ UNCHANGED dash
    /\ UNCHANGED <<params_given, rows, df, groups, driver_results,
                   branch_summary, analyzed>>

\* the same calculator is called again with the dict it was given before
RecalculateDeliveryCost ==
    /\ pc = "cost_returned"
    /\ param_reads
         < MaxCalls * CostParamReads(cost_params, trajectory_analysis)
    /\ cost_analysis' = calculate_delivery_cost(cost_params, trajectory_analysis)
    /\ cost_params' = CostParamsAfterCall(cost_params, trajectory_analysis)
    /\ trajectory_analysis' =
          TrajectoryAfterCall(cost_params, trajectory_analysis)
    /\ param_reads' = param_reads
                        + CostParamReads(cost_params, trajectory_analysis)
    /\ pc' = "cost_returned"
    /\ UNCHANGED idle
    /\ UNCHANGED dash
    /\ UNCHANGED <<params_given, rows, df, groups, driver_results,
                   branch_summary, analyzed>>

NextCost == CalculateDeliveryCost \/ RecalculateDeliveryCost

SpecCost == InitCost /\ [][NextCost]_vars

(***************************************************************************)
(* haversine_distance.  Coordinates are hundredths of a degree; angles and *)
(* the values of sin, cos, sqrt are fixed-point numbers with TrigScale     *)
(* units to 1; the haversine term a has TrigScale^2 units to 1.  The       *)
(* result is in units of 1/TrigScale km.                                   *)
(***************************************************************************)
TrigScale == 100 * 100
PiScaled == 31416                  \* math.pi in 1/TrigScale
EarthRadiusKm == 6371              \* R = 6371.0

\* division to the nearest, symmetric in the sign, so that f(-x) = -f(x)
SDiv(a, b) == IF a >= 0 THEN (2 * a + b) \div (2 * b)
              ELSE 0 - ((2 * (0 - a) + b) \div (2 * b))

\* math.radians of hundredths of a degree
Radians(deg) == SDiv(deg * PiScaled, 180 * 100)

\* x * y of two fixed-point numbers
FMul(x, y) == SDiv(x * y, TrigScale)

\* math.sin: x - x^3/3! + x^5/5! - x^7/7! + x^9/9!
Sin(x) ==
    LET x2 == FMul(x, x)
        t3 == FMul(x, x2)
        t5 == FMul(t3, x2)
        t7 == FMul(t5, x2)
        t9 == FMul(t7, x2)
    IN  x - SDiv(t3, 6) + SDiv(t5, 120) - SDiv(t7, 5040) + SDiv(t9, 362880)

\* math.cos: 1 - x^2/2! + x^4/4! - x^6/6! + x^8/8!
Cos(x) ==
    LET x2 == FMul(x, x)
        t4 == FMul(x2, x2)
        t6 == FMul(t4, x2)
        t8 == FMul(t6, x2)
    IN  TrigScale - SDiv(x2, 2) + SDiv(t4, 24) - SDiv(t6, 720)
          + SDiv(t8, 40320)

RECURSIVE Newton(_, _)
Newton(n, r) ==
    LET r2 == (r + n \div r) \div 2
    IN  IF r2 >= r THEN r ELSE Newton(n, r2)

\* floor of the square root of a natural number
ISqrt(n) == IF n <= 0 THEN 0 ELSE Newton(n, n)

\* math.sqrt of a (TrigScale^2 units) in TrigScale units
Sqrt(a) == ISqrt(a)

\* atan of t in [0, 1]: the argument is halved twice by
\* atan t = 2 atan(t / (1 + sqrt(1 + t^2))), then t - t^3/3 + t^5/5 - t^7/7
HalveArg(t) ==
    SDiv(t * TrigScale, TrigScale + ISqrt(TrigScale * TrigScale + t * t))

AtanSeries(t) ==
    LET t2 == FMul(t, t)
        t3 == FMul(t, t2)
        t5 == FMul(t3, t2)
        t7 == FMul(t5, t2)
    IN  t - SDiv(t3, 3) + SDiv(t5, 5) - SDiv(t7, 7)

Atan01(t) == 4 * AtanSeries(HalveArg(HalveArg(t)))

\* math.atan2(y, x) for y >= 0, x >= 0 (the two square roots)
Atan2(y, x) ==
    IF y = 0 THEN 0
    ELSE IF x = 0 THEN PiScaled \div 2
    ELSE IF y <= x THEN Atan01(SDiv(y * TrigScale, x))
    ELSE PiScaled \div 2 - Atan01(SDiv(x * TrigScale, y))

\* mutant: the cosine of the first latitude is taken for both points
haversine_distance_FirstLatitude(lat1, lon1, lat2, lon2) ==
    LET lat1_rad == Radians(lat1)
        lon1_rad == Radians(lon1)
        lat2_rad == Radians(lat2)
        lon2_rad == Radians(lon2)
        dlat == lat2_rad - lat1_rad
        dlon == lon2_rad - lon1_rad
        sdlat == Sin(SDiv(dlat, 2))
        sdlon == Sin(SDiv(dlon, 2))
        a == sdlat * sdlat
               + FMul(Cos(lat1_rad), sdlon) * FMul(Cos(lat1_rad), sdlon)
        c == 2 * Atan2(Sqrt(a), Sqrt(TrigScale * TrigScale - a))
    IN  EarthRadiusKm * c

haversine_distance(lat1, lon1, lat2, lon2) ==
    LET lat1_rad == Radians(lat1)
        lon1_rad == Radians(lon1)
        lat2_rad == Radians(lat2)
        lon2_rad == Radians(lon2)
        dlat == lat2_rad - lat1_rad
        dlon == lon2_rad - lon1_rad
        sdlat == Sin(SDiv(dlat, 2))
        sdlon == Sin(SDiv(dlon, 2))
        a == sdlat * sdlat
               + FMul(Cos(lat1_rad), sdlon) * FMul(Cos(lat2_rad), sdlon)
        c == 2 * Atan2(Sqrt(a), Sqrt(TrigScale * TrigScale - a))
    IN  EarthRadiusKm * c

(***************************************************************************)
(* Specification SpecGeo: haversine_distance called on two points drawn    *)
(* from a grid, and then on the same points in the other order.  The grid  *)
(* has points on both sides of the equator and of the prime meridian and   *)
(* the depots and check-in places of the batches below.                    *)
(***************************************************************************)
MaxGridStep == 2       \* grid lines per axis around 0: 0 .. MaxGridStep

GridLine(i) == (i - 1) * 150         \* -1.5, 0, 1.5, ... degrees

GeoLats == { GridLine(i) : i \in 0 .. MaxGridStep } \cup {2500, 2800}
GeoLons == { GridLine(i) : i \in 0 .. MaxGridStep } \cup {11400, 11700}

GeoPoints == GeoLats \X GeoLons

InitGeo ==
    /\ coords \in GeoPoints \X GeoPoints
    /\ distances = << >>
    /\ pc = "geo_call"
    /\ params_given = None
    /\ cost_params = DeliveryCostCalculator(params_given)
    /\ rows = << >>
    /\ df = << >>
    /\ groups = << >>
    /\ driver_results = << >>
    /\ branch_summary = << >>
    /\ trajectory_analysis = EmptyDict
    /\ cost_analysis = EmptyDict
    /\ analyzed = 0
    /\ param_reads = 0
    /\ new_params = None
    /\ new_driver_costs = << >>
    /\ new_branch_summary = << >>
    /\ in_flight = {}

\* haversine_distance(lat1, lon1, lat2, lon2)
HaversineDistance ==
    /\ pc = "geo_call"
    /\ distances' = Append(distances,
                           haversine_distance(coords[1][1], coords[1][2],
                                              coords[2][1], coords[2][2]))
    /\ pc' = "geo_swap"
    /\ UNCHANGED dash
    /\ UNCHANGED <<cost_params, params_given, rows, df, groups, driver_results,
                   branch_summary, trajectory_analysis, cost_analysis,
                   analyzed, param_reads, in_flight, coords>>

\* haversine_distance(lat2, lon2, lat1, lon1)
HaversineDistanceSwapped ==
    /\ pc = "geo_swap"
    /\ distances' = Append(distances,
                           haversine_distance(coords[2][1], coords[2][2],
                                              coords[1][1], coords[1][2]))
    /\ pc' = "geo_returned"
    /\ UNCHANGED dash
    /\ UNCHANGED <<cost_params, params_given, rows, df, groups, driver_results,
                   branch_summary, trajectory_analysis, cost_analysis,
                   analyzed, param_reads, in_flight, coords>>

NextGeo == HaversineDistance \/ HaversineDistanceSwapped

SpecGeo == InitGeo /\ [][NextGeo]_vars

(***************************************************************************)
(* Check-in rows.  Columns: open_id (微信open_id), time (提交时间, the raw  *)
(* text of the file), lat/lon (纬度/经度), branch (匹配分公司名), mlat/mlon  *)
(* (匹配纬度/匹配经度).  A missing cell is NaN (numbers) or NaNStr (text).  *)
(* A time is the text "H:MM" after the date, as a sequence of character    *)
(* codes: the digits 0..9, and Colon for ':' (which sorts after the        *)
(* digits, as in ASCII).  Every row of the batches considered here carries *)
(* a time.  haversine_distance is evaluated for latitudes below 60 degrees *)
(* and points a few degrees apart, where its sums stay within 31 bits.     *)
(***************************************************************************)
NaN == -99999
NaNStr == "NaN"
Colon == 10

RECURSIVE StrLess(_, _)
\* s < t for two strings, as Python and pandas order them
StrLess(s, t) ==
    IF t = << >> THEN FALSE
    ELSE IF s = << >> THEN TRUE
    ELSE IF Head(s) # Head(t) THEN Head(s) < Head(t)
    ELSE StrLess(Tail(s), Tail(t))

ColonAt(s) == CHOOSE i \in 1 .. Len(s) : s[i] = Colon

RECURSIVE Digits(_)
Digits(s) == IF s = << >> THEN 0
             ELSE 10 * Digits(SubSeq(s, 1, Len(s) - 1)) + s[Len(s)]

\* pd.to_datetime of a time text: minutes since midnight of the day
to_datetime(s) ==
    60 * Digits(SubSeq(s, 1, ColonAt(s) - 1))
      + Digits(SubSeq(s, ColonAt(s) + 1, Len(s)))

\* pd.to_datetime(...).dt.date: every time of a batch is of the one day
DateOf(s) == "2025-08-20"

IndexPermutations(n) ==
    { f \in [1 .. n -> 1 .. n] : \A i, j \in 1 .. n : f[i] = f[j] => i = j }

\* mutant: the rows are ordered by their parsed time, latest first
sort_values_Descending(data) ==
    { [i \in 1 .. Len(data) |-> data[f[i]]] :
        f \in { g \in IndexPermutations(Len(data)) :
                  \A i, j \in 1 .. Len(data) :
                      i < j => to_datetime(data[g[i]].time)
                                 >= to_datetime(data[g[j]].time) } }

\* driver_data.sort_values('提交时间'): the column holds the raw text, so the
\* order is the order of strings.  The default sort (quicksort) is not
\* stable: every order of rows with equal keys is a possible outcome.
sort_values(data) ==
    { [i \in 1 .. Len(data) |-> data[f[i]]] :
        f \in { g \in IndexPermutations(Len(data)) :
                  \A i, j \in 1 .. Len(data) :
                      i < j => ~StrLess(data[g[j]].time, data[g[i]].time) } }

RECURSIVE SumSeq(_)
SumSeq(q) == IF q = << >> THEN 0 ELSE Head(q) + SumSeq(Tail(q))

\* the dict appended to delivery_points for a row
DeliveryPoint(row) == [lat |-> row.lat, lon |-> row.lon, time |-> row.time]

\* mutant: every segment starts at the depot
PathDetails_FromDepot(depot_lat, depot_lon, delivery_points) ==
    [i \in 1 .. Len(delivery_points) |->
        LET from_coords == <<depot_lat, depot_lon>>
            to_coords == <<delivery_points[i].lat, delivery_points[i].lon>>
        IN  [from_coords |-> from_coords,
             to_coords |-> to_coords,
             distance |-> haversine_distance(from_coords[1], from_coords[2],
                                             to_coords[1], to_coords[2])]]

\* path_details: depot -> point 1, then point i-1 -> point i
PathDetails(depot_lat, depot_lon, delivery_points) ==
    [i \in 1 .. Len(delivery_points) |->
        LET from_coords ==
                IF i = 1 THEN <<depot_lat, depot_lon>>
                ELSE <<delivery_points[i - 1].lat, delivery_points[i - 1].lon>>
            to_coords == <<delivery_points[i].lat, delivery_points[i].lon>>
        IN  [from_coords |-> from_coords,
             to_coords |-> to_coords,
             distance |-> haversine_distance(from_coords[1], from_coords[2],
                                             to_coords[1], to_coords[2])]]

\* mutant: a single point gets no default duration
delivery_duration_hours_NoDefault(delivery_points) ==
    IF Len(delivery_points) >= 1
    THEN RoundHalfEven(
             (to_datetime(delivery_points[Len(delivery_points)].time)
                - to_datetime(delivery_points[1].time)) * 100, 60)
    ELSE 50

\* round(delivery_duration_hours, 2), in hundredths of an hour
delivery_duration_hours(delivery_points) ==
    IF Len(delivery_points) >= 2
    THEN RoundHalfEven(
             (to_datetime(delivery_points[Len(delivery_points)].time)
                - to_datetime(delivery_points[1].time)) * 100, 60)
    ELSE 50

\* mutant: the depot is that of the first row of the sorted frame
analyze_driver_trajectory_DepotOfSorted(driver_data, sorted_data) ==
    IF Len(driver_data) = 0 THEN EmptyDict
    ELSE
      LET depot_lat == sorted_data[1].mlat
          depot_lon == sorted_data[1].mlon
          delivery_points ==
              [i \in 1 .. Len(sorted_data) |-> DeliveryPoint(sorted_data[i])]
          path_details == PathDetails(depot_lat, depot_lon, delivery_points)
          total_distance ==
              SumSeq([i \in 1 .. Len(path_details) |-> path_details[i].distance])
      IN  [driver_id |-> driver_data[1].open_id,
           delivery_date |-> DateOf(driver_data[1].time),
           branch_name |-> driver_data[1].branch,
           depot_coords |-> <<depot_lat, depot_lon>>,
           delivery_points_count |-> Len(delivery_points),
           total_distance_km |-> RoundHalfEven(total_distance, TrigScale \div 100),
           delivery_duration_hours |-> delivery_duration_hours(delivery_points),
           path_details |-> path_details,
           delivery_points |-> delivery_points]

\* mutant: the branch is that of the first row of the sorted frame
analyze_driver_trajectory_BranchOfSorted(driver_data, sorted_data) ==
    IF Len(driver_data) = 0 THEN EmptyDict
    ELSE
      LET depot_lat == driver_data[1].mlat
          depot_lon == driver_data[1].mlon
          delivery_points ==
              [i \in 1 .. Len(sorted_data) |-> DeliveryPoint(sorted_data[i])]
          path_details == PathDetails(depot_lat, depot_lon, delivery_points)
          total_distance ==
              SumSeq([i \in 1 .. Len(path_details) |-> path_details[i].distance])
      IN  [driver_id |-> driver_data[1].open_id,
           delivery_date |-> DateOf(driver_data[1].time),
           branch_name |-> sorted_data[1].branch,
           depot_coords |-> <<depot_lat, depot_lon>>,
           delivery_points_count |-> Len(delivery_points),
           total_distance_km |-> RoundHalfEven(total_distance, TrigScale \div 100),
           delivery_duration_hours |-> delivery_duration_hours(delivery_points),
           path_details |-> path_details,
           delivery_points |-> delivery_points]

\* analyze_driver_trajectory, given the outcome sorted_data of the sort
analyze_driver_trajectory(driver_data, sorted_data) ==
    IF Len(driver_data) = 0 THEN EmptyDict
    ELSE
      LET depot_lat == driver_data[1].mlat
          depot_lon == driver_data[1].mlon
          delivery_points ==
              [i \in 1 .. Len(sorted_data) |-> DeliveryPoint(sorted_data[i])]
          path_details == PathDetails(depot_lat, depot_lon, delivery_points)
          total_distance ==
              SumSeq([i \in 1 .. Len(path_details) |-> path_details[i].distance])
      IN  [driver_id |-> driver_data[1].open_id,
           delivery_date |-> DateOf(driver_data[1].time),
           branch_name |-> driver_data[1].branch,
           depot_coords |-> <<depot_lat, depot_lon>>,
           delivery_points_count |-> Len(delivery_points),
           total_distance_km |-> RoundHalfEven(total_distance, TrigScale \div 100),
           delivery_duration_hours |-> delivery_duration_hours(delivery_points),
           path_details |-> path_details,
           delivery_points |-> delivery_points]

(***************************************************************************)
(* process_daily_data                                                      *)
(***************************************************************************)
RequiredColumns == {"open_id", "lon", "lat", "mlon", "mlat"}

IsMissing(row, col) ==
    IF col = "open_id" THEN row.open_id = NaNStr
    ELSE IF col = "lon" THEN row.lon = NaN
    ELSE IF col = "lat" THEN row.lat = NaN
    ELSE IF col = "mlon" THEN row.mlon = NaN
    ELSE row.mlat = NaN

Keep(row) == \A col \in RequiredColumns : ~IsMissing(row, col)

\* mutant: the depot columns are not in the subset
dropna_NoDepot(frame) ==
    SelectSeq(frame, LAMBDA row :
        \A col \in {"open_id", "lon", "lat"} : ~IsMissing(row, col))

\* df.dropna(subset=[...]): the rows with no missing required cell, in order
dropna(frame) == SelectSeq(frame, Keep)

\* the order of the group keys of a groupby (ascending)
DriverOrder == <<"d1", "d2">>
BranchOrder == <<"A", "B">>

\* mutant: every known driver is a group, with rows or without
GroupKeys_AllDrivers(frame) == DriverOrder

\* the keys df.groupby('微信open_id') yields, in order
GroupKeys(frame) ==
    SelectSeq(DriverOrder,
              LAMBDA d : \E i \in 1 .. Len(frame) : frame[i].open_id = d)

\* the rows of one group, in frame order
\* mutant: every group is handed the whole frame
GroupRows_Shared(frame, d) == frame

GroupRows(frame, d) == SelectSeq(frame, LAMBDA row : row.open_id = d)

RECURSIVE SumOver(_, _)
\* sum of f[i] over the indices i of the set idx
SumOver(f, idx) ==
    IF idx = {} THEN 0
    ELSE LET i == CHOOSE x \in idx : TRUE
         IN  f[i] + SumOver(f, idx \ {i})

\* mutant: every record is counted in every branch
BranchMembers_All(records, b) == 1 .. Len(records)

\* mutant: a group is the first record of the branch only
BranchMembers_First(records, b) ==
    { i \in 1 .. Len(records) :
        /\ records[i].branch_name = b
        /\ \A j \in 1 .. i - 1 : records[j].branch_name # b }

\* the records of one group of groupby('branch_name')
BranchMembers(records, b) ==
    { i \in 1 .. Len(records) : records[i].branch_name = b }

\* mutant: the driver count is the number of delivery points of the branch
DriverCount_Points(records, idx) ==
    SumOver([i \in 1 .. Len(records) |-> records[i].delivery_points_count], idx)

\* agg 'driver_id': 'count'
DriverCount(records, idx) == Cardinality(idx)

\* one row of the summary: sums, and means rounded to 2 places
BranchRow(records, b) ==
    LET idx == BranchMembers(records, b)
        n == Cardinality(idx)
        col(name) == [i \in 1 .. Len(records) |-> records[i][name]]
    IN  [branch_name |-> b,
         driver_count |-> DriverCount(records, idx),
         total_distance |-> SumOver(col("total_distance_km"), idx),
         mean_distance |->
             RoundHalfEven(SumOver(col("total_distance_km"), idx), n),
         total_points |-> SumOver(col("delivery_points_count"), idx),
         total_cost |-> SumOver(col("total_cost"), idx),
         mean_cost |-> RoundHalfEven(SumOver(col("total_cost"), idx), n),
         mean_avg_cost_per_point |->
             RoundHalfEven(SumOver(col("avg_cost_per_point"), idx), n),
         mean_cost_efficiency |->
             RoundHalfEven(SumOver(col("cost_efficiency"), idx), n)]

\* the branch summary of lines 251-269: groupby drops the NaN key and
\* orders the groups by key; an empty frame gives an empty summary
BranchSummary(records) ==
    IF records = << >> THEN << >>
    ELSE LET keys == SelectSeq(BranchOrder,
                         LAMBDA b : BranchMembers(records, b) # {})
         IN  [k \in 1 .. Len(keys) |-> BranchRow(records, keys[k])]

(***************************************************************************)
(* Specification Spec: one run of process_daily_data over a batch of rows, *)
(* by a calculator constructed with (or loaded with) some parameters.      *)
(***************************************************************************)
MaxRows == 2           \* rows of data_file

T0945 == <<9, Colon, 4, 5>>        \* "9:45"
T1000 == <<1, 0, Colon, 0, 0>>     \* "10:00"

Drivers == {"d1", "d2"}

\* a check-in: when and where
Visits == { [time |-> T0945, lat |-> 2800, lon |-> 11400],
            [time |-> T1000, lat |-> 2500, lon |-> 11400] }

\* the matched branch and its depot
Matches == { [branch |-> "A", mlat |-> 2500, mlon |-> 11400],
             [branch |-> "B", mlat |-> 2800, mlon |-> 11700],
             [branch |-> NaNStr, mlat |-> 2500, mlon |-> 11400] }

MkRow(d, v, m) ==
    [open_id |-> d, time |-> v.time, lat |-> v.lat, lon |-> v.lon,
     branch |-> m.branch, mlat |-> m.mlat, mlon |-> m.mlon]

GoodRows == { MkRow(d, v, m) : d \in Drivers, v \in Visits, m \in Matches }

BaseRow == MkRow("d1", [time |-> T0945, lat |-> 2800, lon |-> 11400],
                 [branch |-> "A", mlat |-> 2500, mlon |-> 11400])

\* rows with one required cell missing
DamagedRows ==
    { [BaseRow EXCEPT !.open_id = NaNStr], [BaseRow EXCEPT !.lat = NaN],
      [BaseRow EXCEPT !.lon = NaN], [BaseRow EXCEPT !.mlat = NaN],
      [BaseRow EXCEPT !.mlon = NaN] }

RowDomain == GoodRows \cup DamagedRows

Batches == UNION { [1 .. n -> RowDomain] : n \in 0 .. MaxRows }

\* parameter dicts a caller can pass or a parameter file can hold
MissingKeyParams ==
    [k \in {"fuel_price", "fuel_consumption", "toll_rate",
            "vehicle_depreciation", "insurance_daily"} |-> DefaultParams[k]]

NegativeParams == [DefaultParams EXCEPT !["toll_rate"] = Num(0 - 45)]

NonNumericParams == [DefaultParams EXCEPT !["fuel_consumption"] = NonNum]

ConstructorArgs == {None, EmptyDict, FractionalParams}
ParamFiles == {MissingKeyParams, NegativeParams, NonNumericParams}

Init ==
    /\ params_given \in ConstructorArgs
    /\ cost_params = DeliveryCostCalculator(params_given)
    /\ rows \in Batches
    /\ pc = "start"
    /\ df = << >>
    /\ groups = << >>
    /\ driver_results = << >>
    /\ branch_summary = << >>
    /\ trajectory_analysis = EmptyDict
    /\ cost_analysis = EmptyDict
    /\ analyzed = 0
    /\ param_reads = 0
    /\ new_params = None
    /\ new_driver_costs = << >>
    /\ new_branch_summary = << >>
    /\ in_flight = {}
    /\ coords = << >>
    /\ distances = << >>

\* load_cost_parameters: the dict of the file replaces cost_params as it is
LoadCostParameters ==
    /\ pc = "start"
    /\ \E file \in ParamFiles :
          /\ cost_params' = file
          /\ params_given' = file
    /\ UNCHANGED idle
    /\ UNCHANGED dash
    /\ UNCHANGED <<rows, pc, df, groups, driver_results, branch_summary,
                   trajectory_analysis, cost_analysis, analyzed, param_reads>>

\* lines 230-239: read, filter, group
ReadAndFilter ==
    /\ pc = "start"
    /\ df' = dropna(rows)
    /\ groups' = GroupKeys(dropna(rows))
    /\ pc' = "loop"
    /\ UNCHANGED idle
    /\ UNCHANGED dash
    /\ UNCHANGED <<cost_params, params_given, rows, driver_results,
                   branch_summary, trajectory_analysis, cost_analysis,
                   analyzed, param_reads>>

\* lines 239-246: one iteration of the loop over the groups
AnalyzeAndCost ==
    /\ pc = "loop"
    /\ groups # << >>
    /\ LET driver_data == GroupRows(df, Head(groups))
       IN  \E sorted_data \in sort_values(driver_data) :
             LET trajectory ==
                     analyze_driver_trajectory(driver_data, sorted_data)
                 cost == calculate_delivery_cost(cost_params, trajectory)
             IN  /\ analyzed' = analyzed + 1
                 /\ trajectory_analysis' = trajectory
                 /\ cost_params' =
                       IF trajectory = EmptyDict THEN cost_params
                       ELSE CostParamsAfterCall(cost_params, trajectory)
                 /\ param_reads' = param_reads
                       + (IF trajectory # EmptyDict
                          THEN CostParamReads(cost_params, trajectory) ELSE 0)
                 /\ IF trajectory = EmptyDict
                    THEN /\ cost_analysis' = cost_analysis
                         /\ driver_results' = driver_results
                         /\ groups' = Tail(groups)
                         /\ pc' = "loop"
                    ELSE IF IsRaised(cost)
                    THEN /\ cost_analysis' = cost
                         /\ driver_results' = driver_results
                         /\ groups' = groups
                         /\ pc' = "raised"
                    ELSE /\ cost_analysis' = cost
                         /\ driver_results' =
                               IF cost # EmptyDict
                               THEN Append(driver_results, cost)
                               ELSE driver_results
                         /\ groups' = Tail(groups)
                         /\ pc' = "loop"
    /\ UNCHANGED idle
    /\ UNCHANGED dash
    /\ UNCHANGED <<params_given, rows, df, branch_summary>>

\* lines 248-271: the two frames are built and returned
Aggregate ==
    /\ pc = "loop"
    /\ groups = << >>
    /\ branch_summary' = BranchSummary(driver_results)
    /\ pc' = "done"
    /\ UNCHANGED idle
    /\ UNCHANGED dash
    /\ UNCHANGED <<cost_params, params_given, rows, df, groups, driver_results,
                   trajectory_analysis, cost_analysis, analyzed, param_reads>>

Next == LoadCostParameters \/ ReadAndFilter \/ AnalyzeAndCost \/ Aggregate

Spec == Init /\ [][Next]_vars

(***************************************************************************)
(* Specification SpecPar: the run of process_daily_data with the bodies of *)
(* the loop of lines 239-246 taken as tasks, one per group, that run in    *)
(* any order and interleave between the trajectory analysis (line 241) and *)
(* the cost calculation (line 244).  A task reads its own group of df and  *)
(* self.cost_params, and appends its record to driver_results.             *)
(***************************************************************************)
Without(q, k) ==
    [i \in 1 .. Len(q) - 1 |-> IF i < k THEN q[i] ELSE q[i + 1]]

InitPar ==
    /\ params_given \in ConstructorArgs
    /\ cost_params = DeliveryCostCalculator(params_given)
    /\ rows \in Batches
    /\ pc = "par_start"
    /\ df = << >>
    /\ groups = << >>
    /\ driver_results = << >>
    /\ branch_summary = << >>
    /\ trajectory_analysis = EmptyDict
    /\ cost_analysis = EmptyDict
    /\ analyzed = 0
    /\ param_reads = 0
    /\ new_params = None
    /\ new_driver_costs = << >>
    /\ new_branch_summary = << >>
    /\ in_flight = {}
    /\ coords = << >>
    /\ distances = << >>

\* lines 230-239: read, filter, group
ParReadAndFilter ==
    /\ pc = "par_start"
    /\ df' = dropna(rows)
    /\ groups' = GroupKeys(dropna(rows))
    /\ pc' = "par_loop"
    /\ UNCHANGED dash
    /\ UNCHANGED <<cost_params, params_given, rows, driver_results,
                   branch_summary, trajectory_analysis, cost_analysis,
                   analyzed, param_reads, in_flight, coords, distances>>

\* line 241 of the task of any group not yet started
ParAnalyze ==
    /\ pc = "par_loop"
    /\ \E k \in 1 .. Len(groups) :
          LET driver_data == GroupRows(df, groups[k])
          IN  \E sorted_data \in sort_values(driver_data) :
                LET trajectory ==
                        analyze_driver_trajectory(driver_data, sorted_data)
                IN  /\ analyzed' = analyzed + 1
                    /\ groups' = Without(groups, k)
                    /\ in_flight' = IF trajectory = EmptyDict THEN in_flight
                                    ELSE in_flight \cup {trajectory}
    /\ UNCHANGED dash
    /\ UNCHANGED <<cost_params, params_given, rows, pc, df, driver_results,
                   branch_summary, trajectory_analysis, cost_analysis,
                   param_reads, coords, distances>>

\* lines 244-246 of any task whose trajectory is there
ParCost ==
    /\ pc = "par_loop"
    /\ \E trajectory \in in_flight :
          LET cost == calculate_delivery_cost(cost_params, trajectory)
          IN  /\ trajectory_analysis' = trajectory
              /\ cost_analysis' = cost
              /\ cost_params' = CostParamsAfterCall(cost_params, trajectory)
              /\ param_reads' = param_reads
                                  + CostParamReads(cost_params, trajectory)
              /\ in_flight' = in_flight \ {trajectory}
              /\ IF IsRaised(cost)
                 THEN /\ driver_results' = driver_results
                      /\ pc' = "par_raised"
                 ELSE /\ driver_results' =
                            IF cost # EmptyDict
                            THEN Append(driver_results, cost)
                            ELSE driver_results
                      /\ pc' = "par_loop"
    /\ UNCHANGED dash
    /\ UNCHANGED <<params_given, rows, df, groups, branch_summary, analyzed,
                   coords, distances>>

\* lines 248-271, once every task has ended
ParAggregate ==
    /\ pc = "par_loop"
    /\ groups = << >>
    /\ in_flight = {}
    /\ branch_summary' = BranchSummary(driver_results)
    /\ pc' = "par_done"
    /\ UNCHANGED dash
    /\ UNCHANGED <<cost_params, params_given, rows, df, groups, driver_results,
                   trajectory_analysis, cost_analysis, analyzed, param_reads,
                   in_flight, coords, distances>>

NextPar == ParReadAndFilter \/ ParAnalyze \/ ParCost \/ ParAggregate

SpecPar == InitPar /\ [][NextPar]_vars

(***************************************************************************)
(* Specification SpecTraj: analyze_driver_trajectory called on the rows of *)
(* one driver, in any input order: rows with times that differ, rows with  *)
(* the same time at different places, rows matched to different branches.  *)
(* df holds the argument driver_data.                                      *)
(***************************************************************************)
MaxCheckIns == 3       \* rows of driver_data

T0950 == <<9, Colon, 5, 0>>        \* "9:50"

TrajVisits == { [time |-> T0945, lat |-> 2800, lon |-> 11400],
                [time |-> T0945, lat |-> 2500, lon |-> 11400],
                [time |-> T0950, lat |-> 2500, lon |-> 11400],
                [time |-> T1000, lat |-> 2800, lon |-> 11400] }

TrajMatches == { [branch |-> "A", mlat |-> 2500, mlon |-> 11400],
                 [branch |-> "B", mlat |-> 2800, mlon |-> 11700] }

TrajRows == { MkRow("d1", v, m) : v \in TrajVisits, m \in TrajMatches }

InitTraj ==
    /\ df \in UNION { [1 .. n -> TrajRows] : n \in 0 .. MaxCheckIns }
    /\ pc = "traj_call"
    /\ params_given = None
    /\ cost_params = DeliveryCostCalculator(params_given)
    /\ rows = << >>
    /\ groups = << >>
    /\ driver_results = << >>
    /\ branch_summary = << >>
    /\ trajectory_analysis = EmptyDict
    /\ cost_analysis = EmptyDict
    /\ analyzed = 0
    /\ param_reads = 0
    /\ new_params = None
    /\ new_driver_costs = << >>
    /\ new_branch_summary = << >>
    /\ in_flight = {}
    /\ coords = << >>
    /\ distances = << >>

\* analyze_driver_trajectory(driver_data)
AnalyzeDriverTrajectory ==
    /\ pc = "traj_call"
    /\ \E sorted_data \in sort_values(df) :
          trajectory_analysis' = analyze_driver_trajectory(df, sorted_data)
    /\ analyzed' = analyzed + 1
    /\ pc' = "traj_returned"
    /\ UNCHANGED dash
    /\ UNCHANGED <<cost_params, params_given, rows, df, groups, driver_results,
                   branch_summary, cost_analysis, param_reads, in_flight,
                   coords, distances>>

NextTraj == AnalyzeDriverTrajectory

SpecTraj == InitTraj /\ [][NextTraj]_vars

(***************************************************************************)
(* Specification SpecDash: process_daily_data runs over the rows of the    *)
(* file, and the dashboard then calls recalculate_costs (streamlit_app.py) *)
(* on the same rows (original_data, read from the same file) with the      *)
(* parameters of its sliders or any other dict.                            *)
(***************************************************************************)
\* mutant: the date column is written into original_data itself
OriginalDataAfterRecalculate_NoCopy(original_data) ==
    [i \in 1 .. Len(original_data) |->
        [k \in DOMAIN original_data[i] \cup {"date"} |->
            IF k = "date" THEN DateOf(original_data[i].time)
            ELSE original_data[i][k]]]

\* df = original_data.copy(): the caller's frame gets no column and loses
\* no row
OriginalDataAfterRecalculate(original_data) == original_data

\* line 449: the trajectory of one group.  The sort of one frame has
\* one outcome in one build; in the batches here every outcome gives the
\* same trajectory.
RecalculateTrajectory(driver_data) ==
    analyze_driver_trajectory(driver_data,
                              CHOOSE x \in sort_values(driver_data) : TRUE)

\* lines 450-451: a non-empty trajectory is costed
RecalculateCost(p, trajectory) ==
    IF trajectory = EmptyDict THEN EmptyDict
    ELSE calculate_delivery_cost(p, trajectory)

\* lines 452-453: the record is appended, unless the call raised
RecalculateAppend(cost, rest) ==
    IF IsRaised(cost) THEN [error |-> cost.raised, records |-> << >>]
    ELSE IF rest.error # "none" THEN rest
    ELSE [error |-> "none",
          records |-> (IF cost # EmptyDict THEN <<cost>> ELSE << >>)
                         \o rest.records]

\* the loop of recalculate_costs over the groups: the records appended, or
\* the exception that ended it
RECURSIVE RecalculateLoop(_, _, _)
RecalculateLoop(frame, keys, p) ==
    IF keys = << >> THEN [error |-> "none", records |-> << >>]
    ELSE RecalculateAppend(
             RecalculateCost(p, RecalculateTrajectory(
                                    GroupRows(frame, Head(keys)))),
             RecalculateLoop(frame, Tail(keys), p))

\* lines 455-476: the two frames, from the records of the loop
RecalculateFrames(loop) ==
    [error |-> loop.error,
     new_driver_costs |-> loop.records,
     new_branch_summary |->
         IF loop.error = "none" THEN BranchSummary(loop.records) ELSE << >>]

RecalculateOn(frame, calculator) ==
    RecalculateFrames(RecalculateLoop(frame, GroupKeys(frame), calculator))

recalculate_costs(original_data, params) ==
    RecalculateOn(dropna(original_data), DeliveryCostCalculator(params))

\* what process_daily_data is constructed with, what the dashboard passes
DashFirstParams == {None, FractionalParams, MissingKeyParams}
DashNewParams == {EmptyDict, CheapParams, FractionalParams, MissingKeyParams}

InitDash ==
    /\ params_given \in DashFirstParams
    /\ cost_params = DeliveryCostCalculator(params_given)
    /\ rows \in Batches
    /\ pc = "start"
    /\ df = << >>
    /\ groups = << >>
    /\ driver_results = << >>
    /\ branch_summary = << >>
    /\ trajectory_analysis = EmptyDict
    /\ cost_analysis = EmptyDict
    /\ analyzed = 0
    /\ param_reads = 0
    /\ in_flight = {}
    /\ coords = << >>
    /\ distances = << >>
    /\ new_params = None
    /\ new_driver_costs = << >>
    /\ new_branch_summary = << >>

\* recalculate_costs(original_data, new_params), after the run of
\* process_daily_data has returned or raised
RecalculateCosts ==
    /\ pc \in {"done", "raised"}
    /\ \E params \in DashNewParams :
          \E result \in {recalculate_costs(rows, params)} :
              /\ new_params' = params
              /\ new_driver_costs' = result.new_driver_costs
              /\ new_branch_summary' = result.new_branch_summary
              /\ pc' = IF result.error = "none" THEN "recalculated"
                       ELSE "recalculate_raised"
    /\ rows' = OriginalDataAfterRecalculate(rows)
    /\ UNCHANGED <<cost_params, params_given, df, groups, driver_results,
                   branch_summary, trajectory_analysis, cost_analysis,
                   analyzed, param_reads, in_flight, coords, distances>>

NextDash == ReadAndFilter \/ AnalyzeAndCost \/ Aggregate \/ RecalculateCosts

SpecDash == InitDash /\ [][NextDash]_vars

(***************************************************************************)
(* Properties of calculate_delivery_cost (specification SpecCost)          *)
(***************************************************************************)
Returned == pc = "cost_returned" /\ IsCostRecord(cost_analysis)

FieldSum == cost_analysis.mileage_cost + cost_analysis.time_cost
              + cost_analysis.fixed_cost

\* x (cents) is a rounding to 2 places of the exact amount m (micro)
IsRounding2(x, m) == 2 * Abs(x * MicroPerCent - m) <= MicroPerCent

\* C1 as stated: for positive parameters the output field total_cost equals
\* round(mileage_cost + time_cost + fixed_cost, 2) of the record's own output
\* fields (a sum of cents is its own rounding).
C1_TotalEqualsFieldSum ==
    (Returned /\ Positive(cost_params))
        => cost_analysis.total_cost = FieldSum

\* C1 amended: total_cost is the 2-place rounding of the unrounded
\* mileage + time + fixed amounts, and it differs from the sum of the three
\* rounded output fields by at most 0.02.
C1_TotalWithinTwoCents ==
    (Returned /\ Positive(cost_params))
        => /\ IsRounding2(cost_analysis.total_cost,
                          mileage_cost(cost_params, trajectory_analysis)
                            + time_cost(cost_params, trajectory_analysis)
                            + fixed_cost_total(cost_params, trajectory_analysis))
           /\ Abs(cost_analysis.total_cost - FieldSum) <= 2

\* C1 witness: an hourly wage of 25.3, 0.12 km, 0.02 h, one point: the
\* fields are 0.13, 0.51 and 200.00, and total_cost is 200.63 (of 200.632)
C1_Witness ==
    /\ Returned /\ Positive(cost_params)
    /\ cost_params = OddWageParams
    /\ cost_analysis.total_distance_km = 12
    /\ cost_analysis.delivery_duration_hours = 2
    /\ cost_analysis.delivery_points_count = 1
    /\ cost_analysis.mileage_cost = 13
    /\ cost_analysis.time_cost = 51
    /\ cost_analysis.fixed_cost = 20000
    /\ cost_analysis.total_cost = 20063

\* C2 as stated: the output field mileage_cost equals
\* round(fuel_cost + toll_cost, 2) of the record's own output fields.
C2_MileageEqualsFieldSum ==
    Returned
        => cost_analysis.mileage_cost
             = cost_analysis.fuel_cost + cost_analysis.toll_cost

\* C2 amended: mileage_cost is the 2-place rounding of the unrounded
\* fuel + toll amounts, and it differs from the sum of the rounded output
\* fields fuel_cost and toll_cost by at most 0.01.
C2_MileageWithinOneCent ==
    Returned
        => /\ IsRounding2(cost_analysis.mileage_cost,
                          fuel_cost(cost_params, trajectory_analysis)
                            + toll_cost(cost_params, trajectory_analysis))
           /\ Abs(cost_analysis.mileage_cost
                    - (cost_analysis.fuel_cost + cost_analysis.toll_cost)) <= 1

\* C2 witness: the default parameters and 0.12 km give 0.07 + 0.05 but 0.13
C2_Witness ==
    /\ Returned
    /\ cost_params = DefaultParams
    /\ cost_analysis.total_distance_km = 12
    /\ cost_analysis.fuel_cost = 7
    /\ cost_analysis.toll_cost = 5
    /\ cost_analysis.mileage_cost = 13

FixedSum == (V(cost_params, "vehicle_depreciation")
               + V(cost_params, "insurance_daily")) * MicroPerMill

\* C9: for point_count >= 1 and positive parameters fixed_cost is
\* vehicle_depreciation + insurance_daily to 2 decimal places, whatever the
\* point_count: a 2-place rounding of the sum, and the sum itself when the
\* sum is a whole number of cents.
C9_FixedCostIsSum ==
    (Returned /\ Positive(cost_params)
       /\ cost_analysis.delivery_points_count >= 1)
        => /\ IsRounding2(cost_analysis.fixed_cost, FixedSum)
           /\ (FixedSum % MicroPerCent = 0
                 => cost_analysis.fixed_cost * MicroPerCent = FixedSum)

\* C9 witness: 200 / 3 is inexact, and fixed_cost is 200.00 all the same
C9_Witness ==
    /\ Returned
    /\ cost_params = DefaultParams
    /\ cost_analysis.delivery_points_count = 3
    /\ fixed_cost_per_delivery(cost_params, trajectory_analysis) * 3 # FixedSum
    /\ cost_analysis.fixed_cost = 20000

EfficiencyDivisor ==
    Max(cost_analysis.total_distance_km, DistanceFloor) * 100

\* C10 as stated: cost_efficiency equals the record's (rounded) total_cost
\* divided by max(total_distance_km, 0.1), rounded to 2 places.
C10_EfficiencyOfRecordTotal ==
    Returned
        => cost_analysis.cost_efficiency
             = RoundHalfEven(cost_analysis.total_cost * MicroPerCent,
                             EfficiencyDivisor)

\* C10 amended: cost_efficiency is the 2-place rounding of the unrounded
\* total divided by max(total_distance_km, 0.1): the divisor is 0.1 for every
\* distance below 0.1 (0 included), and the result differs from the record's
\* total_cost / max(total_distance_km, 0.1) by at most
\* 0.005 + 0.005 / max(total_distance_km, 0.1).
C10_EfficiencyOfUnroundedTotal ==
    Returned
        => /\ 2 * Abs(cost_analysis.cost_efficiency * EfficiencyDivisor
                        - total_cost(cost_params, trajectory_analysis))
                <= EfficiencyDivisor
           /\ 2 * Abs(cost_analysis.cost_efficiency * EfficiencyDivisor
                        - cost_analysis.total_cost * MicroPerCent)
                <= EfficiencyDivisor + MicroPerCent
           /\ (cost_analysis.total_distance_km < DistanceFloor
                 => EfficiencyDivisor = DistanceFloor * 100)

\* C10 witness: 0.04 km (below the floor) with the default parameters:
\* total 212.542, total_cost 212.54, cost_efficiency 2125.42 and not 2125.40
C10_Witness ==
    /\ Returned
    /\ cost_params = DefaultParams
    /\ cost_analysis.total_distance_km = 4
    /\ cost_analysis.delivery_duration_hours = 50
    /\ cost_analysis.delivery_points_count = 1
    /\ cost_analysis.total_cost = 21254
    /\ cost_analysis.cost_efficiency = 212542

ZeroPoints == pc = "cost_returned"
                /\ trajectory_analysis.delivery_points_count = 0

\* C11 as stated: with point_count 0 the call raises nothing and returns a
\* record with fixed_cost = 0, total_cost = mileage_cost + time_cost and
\* avg_cost_per_point = total_cost.
C11_ZeroPointsFieldSum ==
    ZeroPoints
        => /\ IsCostRecord(cost_analysis)
           /\ cost_analysis.fixed_cost = 0
           /\ cost_analysis.total_cost
                = cost_analysis.mileage_cost + cost_analysis.time_cost
           /\ cost_analysis.avg_cost_per_point = cost_analysis.total_cost

\* C11 amended: with point_count 0 the call raises nothing and returns a
\* record with fixed_cost = 0, avg_cost_per_point = total_cost, and
\* total_cost the 2-place rounding of the unrounded mileage + time amounts,
\* which is within 0.01 of the fields mileage_cost + time_cost.
C11_ZeroPointsRecord ==
    ZeroPoints
        => /\ IsCostRecord(cost_analysis)
           /\ cost_analysis.fixed_cost = 0
           /\ IsRounding2(cost_analysis.total_cost,
                          mileage_cost(cost_params, trajectory_analysis)
                            + time_cost(cost_params, trajectory_analysis))
           /\ Abs(cost_analysis.total_cost
                    - (cost_analysis.mileage_cost + cost_analysis.time_cost))
                <= 1
           /\ cost_analysis.avg_cost_per_point = cost_analysis.total_cost

\* C11 witness: no point, 0.12 km, 0.02 h at 25.3 an hour: mileage_cost
\* 0.13, time_cost 0.51, fixed_cost 0, total_cost and average 0.63
C11_Witness ==
    /\ ZeroPoints /\ IsCostRecord(cost_analysis)
    /\ cost_params = OddWageParams
    /\ cost_analysis.total_distance_km = 12
    /\ cost_analysis.delivery_duration_hours = 2
    /\ cost_analysis.mileage_cost = 13
    /\ cost_analysis.time_cost = 51
    /\ cost_analysis.fixed_cost = 0
    /\ cost_analysis.total_cost = 63
    /\ cost_analysis.avg_cost_per_point = 63

\* the trajectories that differ from the costed one only by a longer distance
LongerTrips ==
    { [trajectory_analysis EXCEPT !.total_distance_km = d] :
        d \in { x \in CostDistances : x > trajectory_analysis.total_distance_km } }

\* C12 as stated: for positive parameters a longer distance gives a strictly
\* larger mileage_cost field and a strictly larger total_cost field.
C12_StrictlyIncreasingFields ==
    (Returned /\ Positive(cost_params))
        => \A t2 \in LongerTrips :
              LET r2 == calculate_delivery_cost(cost_params, t2)
              IN  /\ cost_analysis.mileage_cost < r2.mileage_cost
                  /\ cost_analysis.total_cost < r2.total_cost

\* C12 amended: for positive parameters a longer distance never gives a
\* smaller mileage_cost or total_cost field, and gives strictly larger ones
\* whenever the unrounded mileage amounts are at least 0.01 apart.
C12_NonDecreasingFields ==
    (Returned /\ Positive(cost_params))
        => \A t2 \in LongerTrips :
              LET r2 == calculate_delivery_cost(cost_params, t2)
                  apart == mileage_cost(cost_params, t2)
                             - mileage_cost(cost_params, trajectory_analysis)
                             >= MicroPerCent
              IN  /\ cost_analysis.mileage_cost <= r2.mileage_cost
                  /\ cost_analysis.total_cost <= r2.total_cost
                  /\ apart => /\ cost_analysis.mileage_cost < r2.mileage_cost
                              /\ cost_analysis.total_cost < r2.total_cost

\* C12 witness: at the sliders' lower ends (0.56 per km) 0.01 km and 0.02 km
\* both have mileage_cost 0.01, and 11.12 km has more
C12_Witness ==
    /\ Returned /\ Positive(cost_params)
    /\ cost_params = CheapParams
    /\ cost_analysis.total_distance_km = 1
    /\ cost_analysis.mileage_cost = 1
    /\ \E t2 \in LongerTrips :
          /\ t2.total_distance_km = 2
          /\ calculate_delivery_cost(cost_params, t2).mileage_cost = 1
    /\ \E t3 \in LongerTrips :
          calculate_delivery_cost(cost_params, t3).mileage_cost > 1

NonNegative(p) == \A i \in 1 .. Len(ParamKeys) :
                      Usable(p, ParamKeys[i]) /\ V(p, ParamKeys[i]) >= 0

CostFields == <<"fuel_cost", "toll_cost", "mileage_cost", "time_cost",
                "fixed_cost", "total_cost", "avg_cost_per_point",
                "cost_efficiency">>

\* C13: for a non-negative distance, duration and point count and
\* non-negative parameters, the call returns a record and each of its eight
\* cost fields is >= 0.
C13_CostFieldsNonNegative ==
    (pc = "cost_returned" /\ NonNegative(cost_params)
       /\ trajectory_analysis.total_distance_km >= 0
       /\ trajectory_analysis.delivery_duration_hours >= 0
       /\ trajectory_analysis.delivery_points_count >= 0)
        => /\ IsCostRecord(cost_analysis)
           /\ \A i \in 1 .. Len(CostFields) : cost_analysis[CostFields[i]] >= 0

\* C13 witness: parameters that are zero but for the toll, 11.12 km, no
\* point: fuel, time and fixed cost are 0, the rest is the toll of 5.00
C13_Witness ==
    /\ Returned /\ NonNegative(cost_params) /\ ~Positive(cost_params)
    /\ cost_params = TollOnlyParams
    /\ cost_analysis.total_distance_km = 1112
    /\ cost_analysis.delivery_points_count = 0
    /\ cost_analysis.fuel_cost = 0
    /\ cost_analysis.time_cost = 0
    /\ cost_analysis.fixed_cost = 0
    /\ cost_analysis.toll_cost = 500
    /\ cost_analysis.total_cost = 500

(***************************************************************************)
(* Properties of process_daily_data (specification Spec)                   *)
(***************************************************************************)
Done == pc = "done"

RECURSIVE TotalOfBranch(_, _)
\* the sum of total_cost over the records of a list that carry branch b
TotalOfBranch(records, b) ==
    IF records = << >> THEN 0
    ELSE (IF Head(records).branch_name = b THEN Head(records).total_cost ELSE 0)
           + TotalOfBranch(Tail(records), b)

RowsOfBranch(b) ==
    { k \in 1 .. Len(branch_summary) : branch_summary[k].branch_name = b }

HasRecordOf(b) ==
    \E i \in 1 .. Len(driver_results) : driver_results[i].branch_name = b

\* C3: the summary has one row for each branch that has records, and its
\* total_cost is the sum of total_cost over exactly the records of that
\* branch.
C3_BranchTotalIsSumOfItsRecords ==
    Done =>
        \A b \in {"A", "B"} :
            /\ HasRecordOf(b) <=> RowsOfBranch(b) # {}
            /\ Cardinality(RowsOfBranch(b)) <= 1
            /\ \A k \in RowsOfBranch(b) :
                   branch_summary[k].total_cost
                     = TotalOfBranch(driver_results, b)

\* C3 witness: two records of two branches, two rows with different totals
C3_Witness ==
    /\ Done
    /\ Len(driver_results) = 2
    /\ Len(branch_summary) = 2
    /\ driver_results[1].branch_name # driver_results[2].branch_name
    /\ branch_summary[1].total_cost # branch_summary[2].total_cost
    /\ branch_summary[1].total_cost > 0

\* C4: driver_count of a branch row is the number of distinct driver_ids
\* whose cost record carries that branch_name.
C4_DriverCountIsDistinctDrivers ==
    Done =>
        \A k \in 1 .. Len(branch_summary) :
            branch_summary[k].driver_count
              = Cardinality({ driver_results[i].driver_id :
                    i \in { j \in 1 .. Len(driver_results) :
                              driver_results[j].branch_name
                                = branch_summary[k].branch_name } })

\* C4 witness: one driver with two check-ins is counted once
C4_Witness ==
    /\ Done
    /\ Len(branch_summary) = 1
    /\ branch_summary[1].driver_count = 1
    /\ branch_summary[1].total_points = 2

InvalidParams(p) ==
    \/ p = EmptyDict
    \/ p # None /\ \E i \in 1 .. Len(ParamKeys) :
          \/ ~HasKey(p, ParamKeys[i])
          \/ ~p[ParamKeys[i]].num
          \/ p[ParamKeys[i]].val < 0

\* C5: with parameters that lack a required key or hold a negative or
\* non-numeric value, the run fails before any trajectory analysis or cost
\* computation, for every batch: no trajectory is analyzed, no parameter is
\* used, and the run does not complete.
C5_InvalidParamsFailFast ==
    (InvalidParams(params_given) /\ pc # "start")
        => /\ analyzed = 0
           /\ param_reads = 0
           /\ pc # "done"

Complete(row) ==
    /\ row.open_id # NaNStr
    /\ row.lat # NaN
    /\ row.lon # NaN
    /\ row.mlat # NaN
    /\ row.mlon # NaN

RECURSIVE CompleteRows(_)
CompleteRows(frame) ==
    IF frame = << >> THEN << >>
    ELSE IF Complete(Head(frame))
         THEN <<Head(frame)>> \o CompleteRows(Tail(frame))
         ELSE CompleteRows(Tail(frame))

CompleteRowsOf(d) ==
    { i \in 1 .. Len(rows) : Complete(rows[i]) /\ rows[i].open_id = d }

\* C6: filtering never raises; the frame keeps exactly the rows with all
\* five cells present, in order; and a trajectory is made of the complete
\* rows of its driver only: its point_count and segments count them, and no
\* point, segment or depot holds a missing coordinate.
C6_IncompleteRowsDropped ==
    pc # "start" =>
        /\ df = CompleteRows(rows)
        /\ (pc = "raised" => analyzed > 0)
        /\ trajectory_analysis # EmptyDict =>
              LET t == trajectory_analysis
              IN  /\ t.delivery_points_count
                       = Cardinality(CompleteRowsOf(t.driver_id))
                  /\ Len(t.path_details) = t.delivery_points_count
                  /\ \A i \in 1 .. Len(t.delivery_points) :
                         /\ t.delivery_points[i].lat # NaN
                         /\ t.delivery_points[i].lon # NaN
                  /\ t.depot_coords[1] # NaN
                  /\ t.depot_coords[2] # NaN
                  /\ \E i \in CompleteRowsOf(t.driver_id) :
                         /\ rows[i].branch = t.branch_name
                         /\ <<rows[i].mlat, rows[i].mlon>> = t.depot_coords

\* C6 witness: the first row of a driver has no depot latitude and is
\* dropped, the second one makes a trajectory of one point
C6_Witness ==
    /\ Len(rows) = 2
    /\ rows[1].open_id = "d1" /\ rows[1].mlat = NaN
    /\ Complete(rows[2]) /\ rows[2].open_id = "d1"
    /\ Len(df) = 1
    /\ trajectory_analysis # EmptyDict
    /\ trajectory_analysis.delivery_points_count = 1

NoSurvivor == \A i \in 1 .. Len(rows) : ~Complete(rows[i])

\* C7: when no row survives filtering the run ends normally with a
\* per-driver table of zero rows and a summary of zero rows, and no cost
\* parameter is read.
C7_EmptyBatchEndsEmpty ==
    (NoSurvivor /\ pc # "start")
        => /\ pc \in {"loop", "done"}
           /\ (pc = "loop" => groups = << >> /\ ENABLED Aggregate)
           /\ driver_results = << >>
           /\ branch_summary = << >>
           /\ analyzed = 0
           /\ param_reads = 0

\* C7 witness: a batch of two rows, both incomplete, has run to the end
C7_Witness ==
    /\ Done
    /\ Len(rows) = 2
    /\ NoSurvivor
    /\ driver_results = << >>
    /\ branch_summary = << >>

\* C8: a driver with exactly one check-in gets duration_hours 0.5 and
\* point_count 1, whatever the time and place of the check-in.
C8_SinglePointHalfHour ==
    (trajectory_analysis # EmptyDict
       /\ Len(GroupRows(df, trajectory_analysis.driver_id)) = 1)
        => /\ trajectory_analysis.delivery_duration_hours = 50
           /\ trajectory_analysis.delivery_points_count = 1

\* C8 witness: a single check-in at 10:00 at the depot itself
C8_Witness ==
    /\ trajectory_analysis # EmptyDict
    /\ Len(GroupRows(df, trajectory_analysis.driver_id)) = 1
    /\ trajectory_analysis.delivery_points[1].time = T1000
    /\ trajectory_analysis.total_distance_km = 0
    /\ trajectory_analysis.delivery_duration_hours = 50
    /\ trajectory_analysis.delivery_points_count = 1

Analyzed == analyzed > 0 /\ trajectory_analysis # EmptyDict

\* the check-ins handed to the latest analyze_driver_trajectory call
InputCheckIns == GroupRows(df, trajectory_analysis.driver_id)

IsPermutationOfInput(points) ==
    /\ Len(points) = Len(InputCheckIns)
    /\ \E perm \in IndexPermutations(Len(points)) :
          \A i \in 1 .. Len(points) :
              points[i] = DeliveryPoint(InputCheckIns[perm[i]])

\* C15: the delivery_points of every analyzed trajectory are a permutation of
\* the driver's check-ins, in non-decreasing order of the time of day their
\* time text denotes.
C15_PointsChronological ==
    Analyzed
        => LET points == trajectory_analysis.delivery_points
           IN  /\ IsPermutationOfInput(points)
               /\ \A i \in 1 .. Len(points) - 1 :
                     to_datetime(points[i].time)
                         <= to_datetime(points[i + 1].time)

\* the sum of the distances recorded in path_details, in 1/TrigScale km
SegmentSum ==
    SumSeq([i \in 1 .. Len(trajectory_analysis.path_details) |->
               trajectory_analysis.path_details[i].distance])

CoordsOf(point) == <<point.lat, point.lon>>

\* segment 1 runs from the depot to the first sorted point, segment i from
\* sorted point i-1 to sorted point i, and there is one segment per point
SegmentsChained ==
    LET points == trajectory_analysis.delivery_points
        path == trajectory_analysis.path_details
    IN  /\ Len(path) = trajectory_analysis.delivery_points_count
        /\ Len(path) = Len(points)
        /\ \A i \in 1 .. Len(path) :
              /\ path[i].to_coords = CoordsOf(points[i])
              /\ path[i].from_coords =
                    IF i = 1 THEN trajectory_analysis.depot_coords
                    ELSE CoordsOf(points[i - 1])

\* C16 as stated: one segment per point, chained from the depot through the
\* sorted points, and total_distance_km equal to the sum of the recorded
\* segment distances.
C16_TotalIsSegmentSum ==
    Analyzed
        => /\ SegmentsChained
           /\ trajectory_analysis.total_distance_km * (TrigScale \div 100)
                = SegmentSum

\* C16 amended: one segment per point, chained from the depot through the
\* sorted points, and total_distance_km equal to the sum of the recorded
\* segment distances rounded to 2 decimal places.
C16_TotalIsRoundedSegmentSum ==
    Analyzed
        => /\ SegmentsChained
           /\ 2 * Abs(trajectory_analysis.total_distance_km
                        * (TrigScale \div 100) - SegmentSum)
                <= TrigScale \div 100

\* C16 witness: two points away from the depot and from each other, and a
\* sum of segment distances that is no whole number of hundredths
C16_Witness ==
    /\ Analyzed
    /\ trajectory_analysis.delivery_points_count = 2
    /\ trajectory_analysis.path_details[1].distance > 0
    /\ trajectory_analysis.path_details[2].distance > 0
    /\ trajectory_analysis.path_details[2].from_coords
         # trajectory_analysis.depot_coords
    /\ SegmentSum % (TrigScale \div 100) # 0
    /\ 2 * (SegmentSum % (TrigScale \div 100)) # TrigScale \div 100

\* the per-driver records in another order
Reordered(records, perm) == [i \in 1 .. Len(records) |-> records[perm[i]]]

\* C17: the branch summary built from the per-driver records is the one
\* that the aggregation gives for every other ordering of the same records.
C17_SummaryIgnoresRecordOrder ==
    Done
        => \A perm \in IndexPermutations(Len(driver_results)) :
              BranchSummary(Reordered(driver_results, perm)) = branch_summary

\* C17 witness: two records of different cost in one branch and so one
\* summary row of two drivers, with a second ordering to compare
C17_Witness ==
    /\ Done
    /\ Len(driver_results) = 2
    /\ driver_results[1].branch_name = "A"
    /\ driver_results[2].branch_name = "A"
    /\ driver_results[1].total_cost # driver_results[2].total_cost
    /\ Len(branch_summary) = 1
    /\ branch_summary[1].driver_count = 2
    /\ branch_summary[1].total_cost
         = driver_results[1].total_cost + driver_results[2].total_cost
    /\ \E perm \in IndexPermutations(2) :
          Reordered(driver_results, perm) # driver_results

(***************************************************************************)
(* Properties of the per-driver tasks (specification SpecPar)              *)
(***************************************************************************)
\* the retained check-ins of driver d, in file order
OwnCheckIns(d) ==
    SelectSeq(CompleteRows(rows), LAMBDA row : row.open_id = d)

\* the records driver d's own check-ins and the parameters can give
OwnRecords(d) ==
    { CostRecord(cost_params,
                 analyze_driver_trajectory(OwnCheckIns(d), sorted_data)) :
        sorted_data \in sort_values(OwnCheckIns(d)) }

RecordedDrivers ==
    { driver_results[i].driver_id : i \in 1 .. Len(driver_results) }

\* C18: in whatever order the per-driver tasks run and interleave, and
\* whatever the other drivers' rows are, the record of a driver is one that
\* the driver's own retained check-ins and the parameters give, no driver
\* has two records, and the finished run holds a record for exactly the
\* drivers that have a retained check-in.
C18_RecordDependsOnOwnCheckIns ==
    /\ \A i \in 1 .. Len(driver_results) :
          driver_results[i] \in OwnRecords(driver_results[i].driver_id)
    /\ \A i, j \in 1 .. Len(driver_results) :
          driver_results[i].driver_id = driver_results[j].driver_id => i = j
    /\ pc = "par_done"
         => RecordedDrivers = { d \in Drivers : OwnCheckIns(d) # << >> }

\* C18 witness: both drivers were analyzed before any cost was calculated,
\* and d2's record is there while d1's trajectory still waits
C18_Witness ==
    /\ pc = "par_loop"
    /\ groups = << >>
    /\ analyzed = 2
    /\ Len(driver_results) = 1
    /\ driver_results[1].driver_id = "d2"
    /\ driver_results[1] \in OwnRecords("d2")
    /\ \E trajectory \in in_flight : trajectory.driver_id = "d1"
    /\ OwnCheckIns("d1")[1].branch # OwnCheckIns("d2")[1].branch

(***************************************************************************)
(* Properties of haversine_distance (specification SpecGeo)                *)
(***************************************************************************)
\* C19: the distance from A to B is the distance from B to A.
C19_HaversineSymmetric ==
    pc = "geo_returned"
        => /\ Len(distances) = 2
           /\ distances[1] = distances[2]

\* C19 witness: two points of different latitude and longitude, on the two
\* sides of the equator, a positive distance apart in both directions
C19_Witness ==
    /\ pc = "geo_returned"
    /\ coords[1][1] < 0
    /\ coords[2][1] > 0
    /\ coords[1][2] # coords[2][2]
    /\ distances[1] > 0
    /\ distances[2] > 0

(***************************************************************************)
(* Properties of the rounding along the pipeline (specification Spec)      *)
(***************************************************************************)
Costed == Analyzed /\ IsCostRecord(cost_analysis)

\* the exact amounts (micro) of the formulas of lines 174-197, from the
\* distance, duration and point count the record carries
ExactFuel ==
    cost_analysis.total_distance_km
        * V(cost_params, "fuel_price") * V(cost_params, "fuel_consumption")

ExactToll ==
    cost_analysis.total_distance_km * V(cost_params, "toll_rate") * 100

ExactTime ==
    cost_analysis.delivery_duration_hours
        * V(cost_params, "driver_hourly_wage") * 1000

ExactFixed ==
    RoundHalfEven(FixedSum, cost_analysis.delivery_points_count)
        * cost_analysis.delivery_points_count

\* each monetary field is round(x, 2) of its formula on unrounded amounts
FieldsRoundedAtOutput ==
    /\ cost_analysis.fuel_cost = RoundHalfEven(ExactFuel, MicroPerCent)
    /\ cost_analysis.toll_cost = RoundHalfEven(ExactToll, MicroPerCent)
    /\ cost_analysis.mileage_cost
         = RoundHalfEven(ExactFuel + ExactToll, MicroPerCent)
    /\ cost_analysis.time_cost = RoundHalfEven(ExactTime, MicroPerCent)
    /\ cost_analysis.fixed_cost = RoundHalfEven(ExactFixed, MicroPerCent)
    /\ cost_analysis.total_cost
         = RoundHalfEven(ExactFuel + ExactToll + ExactTime + ExactFixed,
                         MicroPerCent)

\* the minutes between the first and the last sorted point, times 100
ElapsedMinutes100 ==
    LET points == trajectory_analysis.delivery_points
    IN  IF Len(points) >= 2
        THEN (to_datetime(points[Len(points)].time)
                - to_datetime(points[1].time)) * 100
        ELSE 30 * 100

\* C20 as stated: each monetary field is round(x, 2) of its formula on
\* unrounded terms, and the distance and the duration that enter the
\* formulas are the unrounded segment sum and the unrounded elapsed hours.
C20_NothingRoundedBeforeOutput ==
    Costed
        => /\ FieldsRoundedAtOutput
           /\ cost_analysis.total_distance_km * (TrigScale \div 100)
                = SegmentSum
           /\ cost_analysis.delivery_duration_hours * 60 = ElapsedMinutes100

\* C20 amended: each monetary field is round(x, 2) of its formula on
\* unrounded monetary terms, and the distance and the duration that enter
\* the formulas are the segment sum and the elapsed hours rounded to 2
\* decimal places by analyze_driver_trajectory.
C20_MoneyRoundedAtOutputOnly ==
    Costed
        => /\ FieldsRoundedAtOutput
           /\ 2 * Abs(cost_analysis.total_distance_km * (TrigScale \div 100)
                        - SegmentSum)
                <= TrigScale \div 100
           /\ 2 * Abs(cost_analysis.delivery_duration_hours * 60
                        - ElapsedMinutes100)
                <= 60

\* C20 witness: a costed trajectory whose distance was rounded before the
\* formulas, and whose mileage_cost is not the sum of the fields fuel_cost
\* and toll_cost
C20_Witness ==
    /\ Costed
    /\ cost_analysis.total_distance_km * (TrigScale \div 100) # SegmentSum
    /\ cost_analysis.mileage_cost
         # cost_analysis.fuel_cost + cost_analysis.toll_cost
    /\ cost_analysis.total_cost > cost_analysis.mileage_cost

(***************************************************************************)
(* Properties of analyze_driver_trajectory (specification SpecTraj)        *)
(***************************************************************************)
TrajReturned == pc = "traj_returned" /\ trajectory_analysis # EmptyDict

\* the times of day (minutes) of the rows of driver_data
CheckInTimes == { to_datetime(df[i].time) : i \in 1 .. Len(df) }

Earliest == CHOOSE t \in CheckInTimes : \A u \in CheckInTimes : t <= u
Latest == CHOOSE t \in CheckInTimes : \A u \in CheckInTimes : t >= u

\* C21: with two or more check-ins delivery_duration_hours is the time from
\* the earliest to the latest check-in in hours with its fraction (to the 2
\* decimal places the field carries); the half hour is returned only for
\* fewer than two points.
C21_DurationIsLatestMinusEarliest ==
    TrajReturned
        => IF Len(df) >= 2
           THEN 2 * Abs(trajectory_analysis.delivery_duration_hours * 60
                          - (Latest - Earliest) * 100) <= 60
           ELSE trajectory_analysis.delivery_duration_hours = 50

\* the one order of the rows of driver_data that a stable sort on the time
\* text gives: by key, rows of equal key in input order
StableOrder ==
    CHOOSE g \in IndexPermutations(Len(df)) :
        \A i, j \in 1 .. Len(df) :
            i < j => \/ StrLess(df[g[i]].time, df[g[j]].time)
                     \/ (df[g[i]].time = df[g[j]].time /\ g[i] < g[j])

\* C22: delivery_points holds the check-ins in the order of a stable sort:
\* check-ins with equal timestamps keep their input order, so the segments
\* and total_distance_km are fixed by the input row order.
C22_SortIsStable ==
    TrajReturned
        => LET stable == [i \in 1 .. Len(df) |->
                             DeliveryPoint(df[StableOrder[i]])]
               path == PathDetails(trajectory_analysis.depot_coords[1],
                                   trajectory_analysis.depot_coords[2], stable)
           IN  /\ trajectory_analysis.delivery_points = stable
               /\ trajectory_analysis.path_details = path

Branches == { df[i].branch : i \in 1 .. Len(df) }
Depots == { <<df[i].mlat, df[i].mlon>> : i \in 1 .. Len(df) }

\* C23: branch_name and depot_coords, and the start of the first segment,
\* are those of the first row of driver_data in input order, whatever the
\* times and the branches of the other rows.
C23_FirstInputRowWins ==
    TrajReturned
        => /\ trajectory_analysis.branch_name = df[1].branch
           /\ trajectory_analysis.depot_coords = <<df[1].mlat, df[1].mlon>>
           /\ trajectory_analysis.path_details[1].from_coords
                = <<df[1].mlat, df[1].mlon>>

\* C23 witness: the first input row (9:50, branch A) is neither the
\* earliest check-in (9:45, branch B) nor the first of the sorted ones
\* (10:00, branch B), and branch and depot are those of branch A
C23_Witness ==
    /\ TrajReturned
    /\ Len(df) = 3
    /\ df[1].time = T0950 /\ df[1].branch = "A"
    /\ df[2].time = T0945 /\ df[2].branch = "B"
    /\ df[3].time = T1000 /\ df[3].branch = "B"
    /\ trajectory_analysis.delivery_points[1].time = T1000
    /\ trajectory_analysis.branch_name = "A"
    /\ trajectory_analysis.depot_coords = <<2500, 11400>>

\* the rows with the earliest check-in time
EarliestRows == { i \in 1 .. Len(df) : to_datetime(df[i].time) = Earliest }

Recalculated == pc = "recalculated" /\ ~IsRaised(cost_analysis)

SameParams == DeliveryCostCalculator(new_params) = cost_params

\* the fields of a per-driver record that come from the trajectory
TrajectoryFields == <<"driver_id", "delivery_date", "branch_name",
                      "total_distance_km", "delivery_duration_hours",
                      "delivery_points_count">>

\* the columns of a summary row that no cost enters
AssignmentColumns == <<"branch_name", "driver_count", "total_distance",
                       "mean_distance", "total_points">>

\* C25: a recalculation with other parameters returns a record for the
\* same drivers in the same order, each with the driver_id, date, branch,
\* distance, duration and point count of the old record, and a summary with
\* the same branches, driver counts, distances and point totals.
C25_OnlyCostFieldsChange ==
    (Recalculated /\ ~SameParams)
        => /\ Len(new_driver_costs) = Len(driver_results)
           /\ \A i \in 1 .. Len(new_driver_costs) :
                 \A f \in 1 .. Len(TrajectoryFields) :
                     new_driver_costs[i][TrajectoryFields[f]]
                       = driver_results[i][TrajectoryFields[f]]
           /\ Len(new_branch_summary) = Len(branch_summary)
           /\ \A k \in 1 .. Len(new_branch_summary) :
                 \A c \in 1 .. Len(AssignmentColumns) :
                     new_branch_summary[k][AssignmentColumns[c]]
                       = branch_summary[k][AssignmentColumns[c]]

\* C25 witness: two drivers of two branches costed with the parameters of a
\* file and again with the sliders' lower ends: every total_cost changes
C25_Witness ==
    /\ Recalculated /\ ~SameParams
    /\ cost_params = FractionalParams
    /\ new_params = CheapParams
    /\ Len(driver_results) = 2
    /\ Len(new_driver_costs) = 2
    /\ Len(branch_summary) = 2
    /\ \A i \in 1 .. 2 :
          /\ new_driver_costs[i].total_cost # driver_results[i].total_cost
          /\ new_driver_costs[i].total_distance_km > 0
    /\ new_branch_summary[1].total_cost # branch_summary[1].total_cost

\* C30: a call of recalculate_costs with the parameters process_daily_data
\* ran with returns the per-driver frame and the branch summary that
\* process_daily_data returned for the same rows (and raises if it raised),
\* and the call leaves original_data as it was, whatever the parameters.
C30_RecalculateEqualsProcess ==
    [][(pc \in {"done", "raised"} /\ pc' \notin {"done", "raised"})
          => /\ rows' = rows
             /\ SameParams'
                  => IF pc = "done"
                     THEN /\ pc' = "recalculated"
                          /\ new_driver_costs' = driver_results
                          /\ new_branch_summary' = branch_summary
                     ELSE pc' = "recalculate_raised"]_vars

\* C30 witness: a batch of a row that is dropped and a row of one driver,
\* run and recalculated with the same parameters, with equal frames
C30_Witness ==
    /\ Recalculated /\ SameParams
    /\ new_params = FractionalParams
    /\ Len(rows) > Len(df)
    /\ Len(new_driver_costs) = 1
    /\ new_driver_costs = driver_results
    /\ Len(new_branch_summary) = 1
    /\ new_branch_summary = branch_summary
    /\ new_driver_costs[1].total_cost > 0

(***************************************************************************)
(* Properties of the two frames process_daily_data returns (Spec)          *)
(***************************************************************************)
\* the driver ids of the check-ins kept by the filter
RetainedDrivers == { df[i].open_id : i \in 1 .. Len(df) }

\* every record counts a point, and there is one record for each driver
\* with retained check-ins and no other
OneRecordPerRetainedDriver ==
    /\ \A i \in 1 .. Len(driver_results) :
           driver_results[i].delivery_points_count >= 1
    /\ { driver_results[i].driver_id : i \in 1 .. Len(driver_results) }
         = RetainedDrivers
    /\ Len(driver_results) = Cardinality(RetainedDrivers)

\* C26 as stated: every record of process_daily_data has point_count >= 1,
\* there is exactly one record for each distinct driver_id of the retained
\* check-ins, and the fixed_cost of every record is exactly
\* vehicle_depreciation + insurance_daily.
C26_FixedCostIsExactSum ==
    Done =>
        /\ OneRecordPerRetainedDriver
        /\ \A i \in 1 .. Len(driver_results) :
               driver_results[i].fixed_cost * MicroPerCent = FixedSum

\* C26 amended: every record of process_daily_data has point_count >= 1,
\* there is exactly one record for each distinct driver_id of the retained
\* check-ins, and the fixed_cost of every record is vehicle_depreciation +
\* insurance_daily rounded to 2 decimal places: the sum itself when the sum
\* is a whole number of cents.
C26_FixedCostIsRoundedSum ==
    Done =>
        /\ OneRecordPerRetainedDriver
        /\ \A i \in 1 .. Len(driver_results) :
               /\ IsRounding2(driver_results[i].fixed_cost, FixedSum)
               /\ (FixedSum % MicroPerCent = 0
                     => driver_results[i].fixed_cost * MicroPerCent
                          = FixedSum)

\* C26 witness: one driver with two retained check-ins has one record of two
\* points, whose fixed_cost is 150.38 for a sum of 150.375
C26_Witness ==
    /\ Done
    /\ Len(df) = 2
    /\ Len(driver_results) = 1
    /\ driver_results[1].delivery_points_count = 2
    /\ cost_params = FractionalParams
    /\ FixedSum % MicroPerCent # 0
    /\ driver_results[1].fixed_cost = 15038

\* the sum of one column over all the rows of a frame
ColumnSum(frame, name) ==
    SumOver([i \in 1 .. Len(frame) |-> frame[i][name]], 1 .. Len(frame))

\* C27: every record of the per-driver frame is counted in exactly one
\* branch row, a missing branch name included: the driver_count of the
\* branch rows sums to the number of records, and their total_cost to the
\* sum of total_cost over the records.
C27_BranchRowsCoverEveryRecord ==
    Done =>
        /\ ColumnSum(branch_summary, "driver_count") = Len(driver_results)
        /\ ColumnSum(branch_summary, "total_cost")
             = ColumnSum(driver_results, "total_cost")

\* the retained check-ins of one driver, as indices of the filtered frame
RetainedRowsOf(d) == { k \in 1 .. Len(df) : df[k].open_id = d }

\* C28: no check-in is lost or duplicated between the filter and the
\* per-driver frame: the points of every analyzed trajectory are the
\* retained check-ins of its driver, each one once; every retained check-in
\* belongs to the record of exactly one driver; and the point counts of the
\* records sum to the number of retained rows.
C28_NoCheckInLostOrDuplicated ==
    /\ Analyzed =>
          LET t == trajectory_analysis
          IN  /\ IsPermutationOfInput(t.delivery_points)
              /\ t.delivery_points_count = Len(t.delivery_points)
              /\ t.delivery_points_count
                   = Cardinality(RetainedRowsOf(t.driver_id))
    /\ Done =>
          /\ df = CompleteRows(rows)
          /\ \A k \in 1 .. Len(df) :
                 Cardinality({ i \in 1 .. Len(driver_results) :
                     driver_results[i].driver_id = df[k].open_id }) = 1
          /\ \A i \in 1 .. Len(driver_results) :
                 driver_results[i].delivery_points_count
                   = Cardinality(RetainedRowsOf(driver_results[i].driver_id))
          /\ ColumnSum(driver_results, "delivery_points_count") = Len(df)

\* C28 witness: the same check-in twice in the file is two points of one
\* record
C28_Witness ==
    /\ Done
    /\ Len(df) = 2
    /\ df[1] = df[2]
    /\ Len(driver_results) = 1
    /\ driver_results[1].delivery_points_count = 2

\* C29: every analyzed trajectory has a duration of at least 0, because the
\* first of its sorted points is not later in time than the last one; hence
\* the time_cost of its record is at least 0 when the hourly wage is.
C29_DurationNeverNegative ==
    /\ Analyzed =>
          LET points == trajectory_analysis.delivery_points
          IN  /\ to_datetime(points[1].time)
                   <= to_datetime(points[Len(points)].time)
              /\ trajectory_analysis.delivery_duration_hours >= 0
    /\ (Costed /\ V(cost_params, "driver_hourly_wage") >= 0)
          => cost_analysis.time_cost >= 0

====
